---- MODULE Spec2Model ----
(***************************************************************************)
(* A model of extract_transcripts.py: the run of process_playlist over a  *)
(* playlist or single-video URL, with the provider, the operator, the     *)
(* downloader, the speech-to-text model and the translator as the         *)
(* environment.  Text is a sequence of one-character strings.             *)
(***************************************************************************)
EXTENDS Integers, Sequences, FiniteSets, TLC

\* ------------------------------------------------------------------ bounds
MaxVideos == 2      \* items of the provider's playlist
MaxPages == 2       \* pages the provider splits the playlist into
MaxLines == 2       \* segments of a provider transcript

\* --------------------------------------------------------------- constants
None == <<"None">>
StatusOk == 200
Statuses == {200, 403}

COMBINED_FOLDER == <<"all_transcripts">>
INDIVIDUAL_FOLDER == <<"individual_transcripts">>
VIDEOS_FOLDER == <<"video_files">>

SKIPPED_LOG == <<"skipped.log">>

Sentinel == <<"Transcript not available for this video.">>
Unknown == <<"Unknown">>

IllegalChars == {"<", ">", ":", "\"", "/", "\\", "|", "?", "*"}
Whitespace == {" ", "\n", "\t"}

\* ------------------------------------------------------------ text helpers
RECURSIVE LStrip(_)
LStrip(s) ==
    IF s # <<>> /\ Head(s) \in Whitespace THEN LStrip(Tail(s)) ELSE s

RECURSIVE RStrip(_)
RStrip(s) ==
    IF s # <<>> /\ s[Len(s)] \in Whitespace
    THEN RStrip(SubSeq(s, 1, Len(s) - 1))
    ELSE s

Strip(s) == RStrip(LStrip(s))

LowerChar(c) ==
    CASE c = "A" -> "a"
      [] c = "B" -> "b"
      [] c = "N" -> "n"
      [] c = "P" -> "p"
      [] c = "R" -> "r"
      [] c = "T" -> "t"
      [] c = "Y" -> "y"
      [] OTHER -> c

Lower(s) == [i \in 1..Len(s) |-> LowerChar(s[i])]

ReplaceChar(s, from, to) == [i \in 1..Len(s) |-> IF s[i] = from THEN to ELSE s[i]]

IsLegal(c) == c \notin IllegalChars

sanitize_filename(title) == Strip(SelectSeq(title, IsLegal))

DigitChars == <<"0", "1", "2", "3", "4", "5", "6", "7", "8", "9">>

RECURSIVE Str(_)
Str(n) ==
    IF n < 10
    THEN <<DigitChars[n + 1]>>
    ELSE Str(n \div 10) \o <<DigitChars[(n % 10) + 1]>>

RECURSIVE JoinReversed(_)
JoinReversed(lines) ==
    IF lines = <<>> THEN <<>>
    ELSE IF Len(lines) = 1 THEN lines[1]
    ELSE JoinReversed(Tail(lines)) \o <<"\n">> \o Head(lines)

RECURSIVE JoinLines(_)
JoinLines(lines) ==
    IF lines = <<>> THEN <<>>
    ELSE IF Len(lines) = 1 THEN lines[1]
    ELSE Head(lines) \o <<"\n">> \o JoinLines(Tail(lines))

\* ------------------------------------------------------------ environment
\* The provider's playlist items (the snippet of each): a title with a
\* character illegal in file names and both channel fields, and a title with
\* leading white space and neither channel field.
Snippets ==
    { [videoId |-> "v1", title |-> <<"a", "/">>,
       videoOwnerChannelTitle |-> <<"o">>, channelTitle |-> <<"c">>],
      [videoId |-> "v2", title |-> <<" ", "a">>,
       videoOwnerChannelTitle |-> None, channelTitle |-> None] }

RECURSIVE SeqsUpTo(_, _)
SeqsUpTo(S, n) ==
    IF n = 0 THEN {<<>>}
    ELSE LET shorter == SeqsUpTo(S, n - 1)
         IN shorter \cup {Append(q, x) : q \in {r \in shorter : Len(r) = n - 1}, x \in S}

RECURSIVE Flatten(_)
Flatten(pp) == IF pp = <<>> THEN <<>> ELSE Head(pp) \o Flatten(Tail(pp))

\* Every split of a playlist of at most MaxVideos items into 1..MaxPages pages
\* (a page may be empty).
PageLayouts ==
    { pp \in UNION { [1..n -> SeqsUpTo(Snippets, MaxVideos)] : n \in 1..MaxPages } :
        Len(Flatten(pp)) <= MaxVideos }

QueryParams ==
    { [k \in S |-> IF k = "list" THEN "PL1" ELSE "v9"] : S \in SUBSET {"list", "v"} }

TargetLangs == {<<>>, <<"e", "n">>}

\* The segments of a provider transcript: n distinct line texts, in order.
LineText(i) == <<"l">> \o Str(i)
Transcripts == { [i \in 1..n |-> [text |-> LineText(i)]] : n \in 0..MaxLines }
EmptyTranscript == <<"ValueError: Transcript data is empty">>
FetchErrors ==
    { <<"TranscriptsDisabled">>, <<"NoTranscriptFound">>,
      <<"CouldNotRetrieveTranscript">>, <<"Exception">> }

RawChoices ==
    { <<"Y">>, <<" ", "a">>, <<"A">>, <<"n">>, <<>>, <<"s", "i", "m">>,
      <<"y", "e", "s">>, <<"x">> }
RawLanguages == { <<>>, <<"p", "t">>, <<"P", "T", "-", "B", "R">> }
EOFError == <<"EOFError">>
Extensions == { <<"m", "p", "4">> }

WhisperText == <<"w">>
Translation(text, target) == <<"[">> \o target \o <<"]">> \o text

\* What a previous run left behind.
OldSection == [title |-> <<"old">>, body |-> <<"old">>]
OldCombined == <<OldSection>>

\* ------------------------------------------------------------------ state
VARIABLES
    query_params,       \* parse_qs(urlparse(url).query)
    global_target_lang, \* the operator's answer to the first prompt
    pages,              \* the provider's playlist, page by page
    fail_page,          \* the page answered with a non-200 status (0: none)
    pc,                 \* where the run is
    error,              \* the exception that ended the run, or None
    video_entries,
    next_page_token,
    requests,           \* playlistItems requests issued
    idx,
    content,
    failure,            \* the exception fetch_transcript caught, until the prompt
    language,
    downloaded_file,
    always_use_whisper, \* generate_transcript_placeholder.always_use_whisper
    video_files,        \* the files in VIDEOS_FOLDER
    combined,           \* all_transcripts/transcripts.md, section by section
    individual,         \* individual_transcripts/: path -> document
    skipped_log,        \* skipped.log, line by line
    hist                \* per video, what the environment was asked and answered

vars ==
    << query_params, global_target_lang, pages, fail_page, pc, error, video_entries,
       next_page_token, requests, idx, content, failure, language, downloaded_file,
       always_use_whisper, video_files, combined, individual, skipped_log, hist >>

env == << query_params, global_target_lang, pages, fail_page >>

\* ---------------------------------------------------------------- helpers
IndexedTitle(i, title, channel_name) ==
    Str(i) \o <<".", " ">> \o title \o <<" ", "-", " ">> \o channel_name

IndividualPath(indexed_title) ==
    INDIVIDUAL_FOLDER \o <<"/">> \o sanitize_filename(indexed_title \o <<".", "m", "d">>)

Document(title, body) == [title |-> title, body |-> body]

\* log_skipped, lines 33-35.  No line of the program calls it.
log_skipped(log, url, reason) == Append(log, [url |-> url, reason |-> reason])

WatchUrl(video_id) == <<"https://www.youtube.com/watch?v=", video_id>>

save_markdown(files, title, body, filename) ==
    [p \in DOMAIN files \cup {filename} |->
        IF p = filename THEN Document(title, body) ELSE files[p]]

TranslatedTitle(indexed_title, target) ==
    indexed_title \o <<" ", "(">> \o target \o <<")">>

ChannelName(snippet) ==
    IF snippet.videoOwnerChannelTitle # None THEN snippet.videoOwnerChannelTitle
    ELSE IF snippet.channelTitle # None THEN snippet.channelTitle
    ELSE Unknown

Entry(snippet) ==
    [video_id |-> snippet.videoId, title |-> snippet.title,
     channel_name |-> ChannelName(snippet)]

AppendReversed(entries, items) ==
    [i \in 1..Len(items) |-> Entry(items[Len(items) + 1 - i])] \o entries

AppendEntries(entries, items) ==
    entries \o [i \in 1..Len(items) |-> Entry(items[i])]

Token(k) == <<"t">> \o Str(k)

PageOf(token) ==
    IF token = <<>> THEN 1 ELSE CHOOSE k \in 2..Len(pages) : Token(k) = token

Response(token) ==
    LET k == PageOf(token)
    IN [status_code |-> IF k = fail_page THEN 403 ELSE StatusOk,
        items |-> pages[k],
        nextPageToken |-> IF k < Len(pages) THEN Token(k + 1) ELSE None]

OldIndividual ==
    LET e == Entry(CHOOSE s \in Snippets : s.videoId = "v1")
        t == IndexedTitle(1, e.title, e.channel_name)
    IN  [p \in {IndividualPath(t)} |-> Document(<<"old">>, <<"old">>)]

NewHist(transcript) ==
    [transcript |-> transcript, asked |-> FALSE, lang_asked |-> FALSE,
     downloads |-> 0, whisper |-> None, translated |-> None, translate_failed |-> FALSE]

\* ------------------------------------------------------------------- Init
Init ==
    /\ query_params \in QueryParams
    /\ global_target_lang \in TargetLangs
    /\ pages \in IF "list" \in DOMAIN query_params THEN PageLayouts ELSE {<< <<>> >>}
    /\ fail_page \in IF "list" \in DOMAIN query_params THEN 0..Len(pages) ELSE {0}
    /\ pc = "resolve"
    /\ error = None
    /\ video_entries = <<>>
    /\ next_page_token = <<>>
    /\ requests = 0
    /\ idx = 0
    /\ content = None
    /\ failure = None
    /\ language = None
    /\ downloaded_file = None
    /\ always_use_whisper = FALSE
    /\ video_files = {}
    /\ combined = OldCombined
    /\ individual = OldIndividual
    /\ skipped_log = <<>>
    /\ hist = <<>>

\* ---------------------------------------------------------------- actions
Raise(e) ==
    /\ pc' = "aborted"
    /\ error' = e

\* The combined file is opened before the video list is built (what
\* process_playlist would be with line 165 ahead of line 153).
ResolvePlaylistOpensFirst ==
    /\ pc = "resolve"
    /\ "list" \in DOMAIN query_params
    /\ combined' = <<>>
    /\ pc' = "paging"
    /\ video_entries' = <<>>
    /\ next_page_token' = <<>>
    /\ UNCHANGED << env, error, requests, idx, content, failure, language,
                    downloaded_file, always_use_whisper, video_files,
                    individual, skipped_log, hist >>

\* process_playlist, lines 150-162: the URL decides playlist, single video or
\* neither.
ResolvePlaylist ==
    /\ pc = "resolve"
    /\ "list" \in DOMAIN query_params
    \* fetch_video_ids, lines 49-58
    /\ pc' = "paging"
    /\ video_entries' = <<>>
    /\ next_page_token' = <<>>
    /\ UNCHANGED << env, error, requests, idx, content, failure, language,
                    downloaded_file, always_use_whisper, video_files, combined,
                    individual, skipped_log, hist >>

\* get_video_info_from_api, lines 37-46
get_video_info_from_api(response) ==
    IF response.status_code = StatusOk /\ response.items # <<>>
    THEN << response.items[1].title, response.items[1].channelTitle >>
    ELSE << None, None >>

VideoResponses ==
    { [status_code |-> st, items |-> it] :
        st \in Statuses,
        it \in { <<>>, << [title |-> <<"a", "/">>, channelTitle |-> <<"c">>] >>,
                 << [title |-> <<>>, channelTitle |-> <<"c">>] >> } }

ResolveVideo ==
    /\ pc = "resolve"
    /\ "list" \notin DOMAIN query_params
    /\ "v" \in DOMAIN query_params
    /\ \E response \in VideoResponses :
         LET info == get_video_info_from_api(response)
         IN IF info[1] = None \/ info[1] = <<>>
            THEN /\ Raise(<<"Exception: Could not retrieve title">>)
                 /\ UNCHANGED video_entries
            ELSE /\ video_entries' =
                        << [video_id |-> query_params["v"], title |-> info[1],
                            channel_name |-> info[2]] >>
                 /\ pc' = "open"
                 /\ UNCHANGED error
    /\ UNCHANGED << env, next_page_token, requests, idx, content, failure, language,
                    downloaded_file, always_use_whisper, video_files, combined,
                    individual, skipped_log, hist >>

ResolveInvalid ==
    /\ pc = "resolve"
    /\ "list" \notin DOMAIN query_params
    /\ "v" \notin DOMAIN query_params
    /\ Raise(<<"ValueError: Invalid YouTube URL">>)
    /\ UNCHANGED << env, video_entries, next_page_token, requests, idx, content,
                    failure, language, downloaded_file, always_use_whisper,
                    video_files, combined, individual, skipped_log, hist >>

\* fetch_video_ids, lines 60-80: one turn of the request loop.
FetchPage ==
    /\ pc = "paging"
    /\ IF next_page_token # None
       THEN LET response == Response(next_page_token)
            IN /\ requests' = requests + 1
               /\ IF response.status_code # StatusOk
                  THEN /\ Raise(<<"Exception: Failed to fetch playlist videos">>)
                       /\ UNCHANGED << video_entries, next_page_token >>
                  ELSE /\ video_entries' = AppendEntries(video_entries, response.items)
                       /\ next_page_token' = response.nextPageToken
                       /\ UNCHANGED << pc, error >>
       ELSE /\ pc' = "open"
            /\ UNCHANGED << video_entries, next_page_token, requests, error >>
    /\ UNCHANGED << env, idx, content, failure, language, downloaded_file,
                    always_use_whisper, video_files, combined, individual,
                    skipped_log, hist >>

\* The for loop of process_playlist moves to entry i, or ends the run.
Advance(i) ==
    /\ idx' = i
    /\ pc' = IF i <= Len(video_entries) THEN "fetch" ELSE "done"

\* process_playlist, lines 164-166: the combined file is opened for writing,
\* which truncates it.
OpenCombined ==
    /\ pc = "open"
    /\ combined' = <<>>
    /\ Advance(1)
    /\ UNCHANGED << env, error, video_entries, next_page_token, requests, content,
                    failure, language, downloaded_file, always_use_whisper,
                    video_files, individual, skipped_log, hist >>

\* ------------------------------------------------- per-video actions
CurrentEntry == video_entries[idx]

SetHist(field, value) == hist' = [hist EXCEPT ![idx][field] = value]

\* fetch_transcript, lines 128-134: the provider returned a transcript.  An
\* empty one raises ValueError inside the try, caught at line 141.
FetchTranscriptReturns ==
    /\ pc = "fetch"
    /\ \E transcript \in Transcripts :
         /\ hist' = Append(hist, NewHist(transcript))
         /\ IF transcript = <<>>
            THEN /\ failure' = EmptyTranscript
                 /\ pc' = "prompt"
                 /\ UNCHANGED content
            ELSE /\ content' = JoinLines([i \in 1..Len(transcript) |-> transcript[i].text])
                 /\ failure' = None
                 /\ pc' = "write"
    /\ UNCHANGED << env, error, video_entries, next_page_token, requests, idx, language,
                    downloaded_file, always_use_whisper, video_files, combined,
                    individual, skipped_log >>

\* fetch_transcript, lines 135-143: the provider raised; every exception is
\* caught and generate_transcript_placeholder is called.
FetchTranscriptRaises ==
    /\ pc = "fetch"
    /\ \E e \in FetchErrors :
         /\ failure' = e
         /\ hist' = Append(hist, NewHist(<<>>))
         /\ pc' = "prompt"
    /\ UNCHANGED << env, error, video_entries, next_page_token, requests, idx, content,
                    language, downloaded_file, always_use_whisper, video_files, combined,
                    individual, skipped_log >>

Accepts == { <<>>, <<"y">>, <<"y", "e", "s">>, <<"s", "i", "m">> }

\* generate_transcript_placeholder, lines 107-126, up to the language prompt.
\* The yes/no/all question is printed and input() is read on every call
\* (lines 108-111), before the flag is looked at (line 122).
Prompt ==
    /\ pc = "prompt"
    /\ \E raw \in RawChoices \cup {EOFError} :
         LET typed == IF raw = EOFError THEN <<"y">> ELSE Lower(Strip(raw))
             all == typed = <<"a">>
             choice == IF all THEN <<"y">> ELSE typed
             flag == always_use_whisper \/ all
         IN /\ always_use_whisper' = flag
            /\ SetHist("asked", TRUE)
            /\ IF choice \in Accepts \/ flag
               THEN /\ pc' = "language"
                    /\ UNCHANGED content
               ELSE /\ content' = Sentinel
                    /\ pc' = "write"
    /\ failure' = None
    /\ UNCHANGED << env, error, video_entries, next_page_token, requests, idx,
                    language, downloaded_file, video_files, combined, individual,
                    skipped_log >>

\* generate_transcript_placeholder, lines 123-124: the language prompt; its
\* input() is outside any try.
LanguagePrompt ==
    /\ pc = "language"
    /\ SetHist("lang_asked", TRUE)
    /\ \E raw \in RawLanguages \cup {EOFError} :
         IF raw = EOFError
         THEN /\ Raise(EOFError)
              /\ UNCHANGED language
         ELSE LET code == Lower(ReplaceChar(Strip(raw), "-", "_"))
              IN /\ language' = IF code = <<>> THEN None ELSE code
                 /\ pc' = "download"
                 /\ UNCHANGED error
    /\ UNCHANGED << env, video_entries, next_page_token, requests, idx, content, failure,
                    downloaded_file, always_use_whisper, video_files, combined,
                    individual, skipped_log >>

VideoPath(safe_title, ext) == VIDEOS_FOLDER \o <<"/">> \o safe_title \o <<".">> \o ext

IsPrefix(pre, s) == Len(pre) <= Len(s) /\ SubSeq(s, 1, Len(pre)) = pre

\* glob.glob(os.path.join(VIDEOS_FOLDER, safe_title + ".*")), line 92
Glob(files, safe_title) ==
    { f \in files : IsPrefix(VIDEOS_FOLDER \o <<"/">> \o safe_title \o <<".">>, f) }

\* generate_transcript_with_whisper, lines 83-96: the downloader runs (it may
\* write no file) and the download is looked up by its title.
Download ==
    /\ pc = "download"
    /\ LET safe_title == sanitize_filename(CurrentEntry.title)
       IN \E written \in {{}} \cup { {VideoPath(safe_title, ext)} : ext \in Extensions } :
            LET matches == Glob(video_files \cup written, safe_title)
            IN /\ video_files' = video_files \cup written
               /\ SetHist("downloads", Cardinality(written))
               /\ IF matches = {}
                  THEN /\ Raise(<<"FileNotFoundError">>)
                       /\ UNCHANGED downloaded_file
                  ELSE /\ \E f \in matches : downloaded_file' = f
                       /\ pc' = "transcribe"
                       /\ UNCHANGED error
    /\ UNCHANGED << env, video_entries, next_page_token, requests, idx, content, failure,
                    language, always_use_whisper, combined, individual, skipped_log >>

\* generate_transcript_with_whisper, lines 98-105: the model returned a text.
TranscribeReturns ==
    /\ pc = "transcribe"
    /\ video_files' = video_files \ {downloaded_file}
    /\ content' = WhisperText
    /\ SetHist("whisper", WhisperText)
    /\ downloaded_file' = None
    /\ language' = None
    /\ pc' = "write"
    /\ UNCHANGED << env, error, video_entries, next_page_token, requests, idx, failure,
                    always_use_whisper, combined, individual, skipped_log >>

\* generate_transcript_with_whisper, lines 99-100: load_model or transcribe
\* raised; line 101 is not reached and nothing catches the exception.
TranscribeRaises ==
    /\ pc = "transcribe"
    /\ Raise(<<"TranscriptionError">>)
    /\ UNCHANGED << env, video_entries, next_page_token, requests, idx, content, failure,
                    language, downloaded_file, always_use_whisper, video_files, combined,
                    individual, skipped_log, hist >>

Title(i) == IndexedTitle(i, video_entries[i].title, video_entries[i].channel_name)

\* process_playlist, lines 168-173: the combined section, then the individual
\* file.
WriteOutputs ==
    /\ pc = "write"
    /\ combined' = Append(combined, Document(Title(idx), content))
    /\ individual' = save_markdown(individual, Title(idx), content, IndividualPath(Title(idx)))
    /\ IF global_target_lang # <<>>
       THEN /\ pc' = "translate"
            /\ UNCHANGED << idx, content >>
       ELSE /\ Advance(idx + 1)
            /\ content' = None
    /\ UNCHANGED << env, error, video_entries, next_page_token, requests, failure,
                    language, downloaded_file, always_use_whisper, video_files,
                    skipped_log, hist >>

\* The translated text also replaces the video's combined section (what lines
\* 176-181 would be if the combined write followed the translation).
TranslateReturnsIntoCombined ==
    /\ pc = "translate"
    /\ LET translated == Translation(content, global_target_lang)
       IN /\ SetHist("translated", translated)
          /\ individual' = save_markdown(individual,
                                         TranslatedTitle(Title(idx), global_target_lang),
                                         translated, IndividualPath(Title(idx)))
          /\ combined' = [combined EXCEPT ![idx] = Document(Title(idx), translated)]
    /\ Advance(idx + 1)
    /\ content' = None
    /\ UNCHANGED << env, error, video_entries, next_page_token, requests, failure,
                    language, downloaded_file, always_use_whisper, video_files,
                    skipped_log >>

\* process_playlist, lines 176-181: the translator returned a text.
TranslateReturns ==
    /\ pc = "translate"
    /\ LET translated == Translation(content, global_target_lang)
       IN /\ SetHist("translated", translated)
          /\ individual' = save_markdown(individual,
                                         TranslatedTitle(Title(idx), global_target_lang),
                                         translated, IndividualPath(Title(idx)))
    /\ Advance(idx + 1)
    /\ content' = None
    /\ UNCHANGED << env, error, video_entries, next_page_token, requests, failure,
                    language, downloaded_file, always_use_whisper, video_files, combined,
                    skipped_log >>

\* The translator's exception leaves the loop (what lines 177-183 would be
\* without the try).
TranslateRaisesUncaught ==
    /\ pc = "translate"
    /\ SetHist("translate_failed", TRUE)
    /\ Raise(<<"TranslationError">>)
    /\ UNCHANGED << env, video_entries, next_page_token, requests, idx, content, failure,
                    language, downloaded_file, always_use_whisper, video_files, combined,
                    individual, skipped_log >>

\* process_playlist, lines 177-183: the translator raised; the exception is
\* caught, a warning printed, and the loop goes on.
TranslateRaises ==
    /\ pc = "translate"
    /\ SetHist("translate_failed", TRUE)
    /\ Advance(idx + 1)
    /\ content' = None
    /\ UNCHANGED << env, error, video_entries, next_page_token, requests, failure,
                    language, downloaded_file, always_use_whisper, video_files, combined,
                    individual, skipped_log >>

Next ==
    \/ ResolvePlaylist
    \/ ResolveVideo
    \/ ResolveInvalid
    \/ FetchPage
    \/ OpenCombined
    \/ FetchTranscriptReturns
    \/ FetchTranscriptRaises
    \/ Prompt
    \/ LanguagePrompt
    \/ Download
    \/ TranscribeReturns
    \/ TranscribeRaises
    \/ WriteOutputs
    \/ TranslateReturns
    \/ TranslateRaises

Spec == Init /\ [][Next]_vars

\* ------------------------------------------------------------ properties
RunEnded == pc \in {"done", "aborted"}

\* The errors raised before the video list exists.
EarlyErrors ==
    { <<"ValueError: Invalid YouTube URL">>,
      <<"Exception: Failed to fetch playlist videos">>,
      <<"Exception: Could not retrieve title">> }

\* The run reached the loop over the videos.
Resolved == pc \in {"fetch", "prompt", "language", "download", "transcribe", "write",
                    "translate", "done"}
            \/ (pc = "aborted" /\ error \notin EarlyErrors)

Videos == 1..Len(video_entries)

\* Line texts joined by newlines in order, stated from the last line backwards.
RECURSIVE Joined(_)
Joined(texts) ==
    IF Len(texts) = 0 THEN <<>>
    ELSE IF Len(texts) = 1 THEN texts[1]
    ELSE Joined(SubSeq(texts, 1, Len(texts) - 1)) \o <<"\n">> \o texts[Len(texts)]

ProviderTexts(k) == [i \in 1..Len(hist[k].transcript) |-> hist[k].transcript[i].text]

\* The body of video k before any translation, from what the provider, the
\* operator and the speech-to-text model answered.
OriginalBody(k) ==
    IF hist[k].transcript # <<>> THEN Joined(ProviderTexts(k))
    ELSE IF hist[k].whisper # None THEN hist[k].whisper
    ELSE Sentinel

OriginalDocument(k) ==
    [title |-> Str(k) \o <<".", " ">> \o video_entries[k].title \o <<" ", "-", " ">>
                 \o video_entries[k].channel_name,
     body |-> OriginalBody(k)]

PathOf(k) == IndividualPath(OriginalDocument(k).title)

\* C1: when a run over a resolved list of N entries ends, every entry has
\* exactly one individual file of this run and exactly one combined section,
\* and section k is entry k.
C1_EveryEntryWritten ==
    (RunEnded /\ Resolved) =>
        /\ Len(combined) = Len(video_entries)
        /\ Cardinality({PathOf(k) : k \in Videos}) = Len(video_entries)
        /\ \A k \in Videos :
             /\ combined[k].title = OriginalDocument(k).title
             /\ PathOf(k) \in DOMAIN individual
             /\ individual[PathOf(k)].title # <<"old">>

\* C2: a video whose transcript fetch failed never ends the run: the run does
\* not abort at that video, and when the run has ended the video has its
\* section.
C2_FetchFailureNeverAborts ==
    \A k \in 1..Len(hist) :
        hist[k].transcript = <<>> =>
            /\ ~(pc = "aborted" /\ idx = k)
            /\ (RunEnded => Len(combined) >= k)

\* C3: once "yes to all" was answered, a later video whose fetch failed is not
\* asked the yes/no/all question and goes on to speech-to-text.
C3_StickySkipsPrompt ==
    [][(pc = "prompt" /\ always_use_whisper) =>
          (~hist'[idx].asked /\ pc' = "language")]_vars

\* C4: every combined section holds the original title and body of its video,
\* at all times after it is written; a translation is attempted only after
\* the video's combined section is written; and after a successful
\* translation the individual file holds the translated body under the title
\* suffixed with " (targetLang)".
C4_CombinedKeepsOriginal ==
    \A k \in 1..Len(hist) :
        /\ Len(combined) >= k => combined[k] = OriginalDocument(k)
        /\ (hist[k].translated # None \/ hist[k].translate_failed) => Len(combined) >= k
        /\ hist[k].translated # None =>
             /\ hist[k].translated # OriginalBody(k)
             /\ PathOf(k) \in DOMAIN individual
             /\ individual[PathOf(k)] =
                  [title |-> OriginalDocument(k).title \o <<" ", "(">>
                               \o global_target_lang \o <<")">>,
                   body |-> hist[k].translated]

C4_Witness ==
    /\ pc = "done"
    /\ Len(combined) = 2
    /\ hist[1].translated # None
    /\ hist[1].whisper # None
    /\ hist[2].translated # None

\* The entries of the provider's playlist, in the provider's order.
ProviderEntries ==
    LET all == Flatten(pages)
    IN [i \in 1..Len(all) |->
          [video_id |-> all[i].videoId, title |-> all[i].title,
           channel_name |->
             IF all[i].videoOwnerChannelTitle # None THEN all[i].videoOwnerChannelTitle
             ELSE IF all[i].channelTitle # None THEN all[i].channelTitle
             ELSE <<"Unknown">>]]

\* C5: with every response a 200, fetch_video_ids returns exactly the
\* provider's entries in the provider's order, and it issues requests up to
\* and including the first response without a continuation token (the last
\* page) and none after it.
C5_EnumeratorReturnsAll ==
    ("list" \in DOMAIN query_params /\ fail_page = 0) =>
        /\ requests <= Len(pages)
        /\ (pc = "paging" /\ next_page_token # None) => requests < Len(pages)
        /\ (pc = "paging" /\ next_page_token = None) => requests = Len(pages)
        /\ pc \notin {"resolve", "paging"} =>
             /\ video_entries = ProviderEntries
             /\ requests = Len(pages)

C5_Witness ==
    /\ pc = "open"
    /\ "list" \in DOMAIN query_params
    /\ fail_page = 0
    /\ Len(pages) = 2
    /\ Len(pages[1]) = 1
    /\ Len(pages[2]) = 1
    /\ pages[1] # pages[2]
    /\ Len(video_entries) = 2

\* C6: a video for which the provider returned a non-empty transcript gets no
\* yes/no/all prompt, no language prompt, no download and no speech-to-text
\* run, whatever the sticky flag, and its body is the line texts joined by
\* newlines in the returned order.
C6_ProviderTranscriptNoFallback ==
    \A k \in 1..Len(hist) :
        hist[k].transcript # <<>> =>
            /\ ~hist[k].asked
            /\ ~hist[k].lang_asked
            /\ hist[k].downloads = 0
            /\ hist[k].whisper = None
            /\ (idx = k /\ pc \in {"write", "translate"}) => content = Joined(ProviderTexts(k))
            /\ Len(combined) >= k => combined[k].body = Joined(ProviderTexts(k))
            /\ ~(idx = k /\ pc \in {"prompt", "language", "download", "transcribe"})

C6_Witness ==
    /\ pc = "done"
    /\ always_use_whisper
    /\ Len(hist) = 2
    /\ hist[1].whisper # None
    /\ Len(hist[2].transcript) = 2
    /\ Len(combined) = 2

\* C7: once the fallback of a video that downloaded a file is over (the next
\* video has begun or the run has stopped), video_files holds no file.
C7_DownloadDeleted ==
    \A k \in 1..Len(hist) :
        (hist[k].downloads > 0 /\ (idx > k \/ RunEnded)) => video_files = {}

\* C8: after the translation of video k failed, its individual file holds the
\* original title and body, its combined section is the original and the
\* failure added none, and the run has gone on past video k without aborting
\* on the translation.
C8_TranslationFailureKeepsOriginal ==
    \A k \in 1..Len(hist) :
        hist[k].translate_failed =>
            /\ PathOf(k) \in DOMAIN individual
            /\ individual[PathOf(k)] = OriginalDocument(k)
            /\ Len(combined) >= k
            /\ combined[k] = OriginalDocument(k)
            /\ (idx = k + 1 /\ pc \in {"fetch", "done"}) => Len(combined) = k
            /\ idx > k
            /\ error # <<"TranslationError">>

C8_Witness ==
    /\ pc = "done"
    /\ Len(hist) = 2
    /\ hist[1].translate_failed
    /\ hist[2].translated # None

\* C9: when the run is over, every video that ended with the "not available"
\* sentinel or whose fallback failed has a (url, reason) line in skipped.log,
\* and a video with a provider transcript has none.
C9_SkippedLogged ==
    RunEnded =>
        \A k \in 1..Len(hist) :
            LET logged == \E i \in 1..Len(skipped_log) :
                              skipped_log[i].url = WatchUrl(video_entries[k].video_id)
                skipped == \/ (Len(combined) >= k /\ combined[k].body = Sentinel)
                           \/ (pc = "aborted" /\ idx = k /\ hist[k].transcript = <<>>)
            IN /\ skipped => logged
               /\ hist[k].transcript # <<>> => ~logged

\* C10: until the video list is built, and when the run aborts before it is,
\* the combined file and the individual files are as the previous run left
\* them and no prompt, download or translation has happened; a combined file
\* that differs from the previous run's belongs to a run whose list is built.
C10_EarlyAbortTouchesNothing ==
    /\ (pc \in {"resolve", "paging", "open"} \/ (pc = "aborted" /\ error \in EarlyErrors)) =>
          /\ combined = OldCombined
          /\ individual = OldIndividual
          /\ hist = <<>>
          /\ video_files = {}
          /\ skipped_log = <<>>
    /\ combined # OldCombined =>
          /\ Resolved
          /\ ("list" \in DOMAIN query_params => Len(video_entries) = Len(Flatten(pages)))

C10_Witness ==
    /\ pc = "aborted"
    /\ error = <<"Exception: Failed to fetch playlist videos">>
    /\ requests = 2
    /\ Len(video_entries) >= 1
    /\ combined = OldCombined

====
